---------------------------- MODULE Spec2Model ----------------------------
(***************************************************************************)
(* WAV MIDI Instrument (wav-midi-instrument-qt6.py): the note buffer cache *)
(* built by process_sample, the MIDI decoder midi_callback, and the voice  *)
(* table kept by play_note / stop_note over the pygame mixer's channels.   *)
(*                                                                         *)
(* Threads.  The Qt thread runs the slots (load_sample, process_sample,    *)
(* update_volume, test_sound, select_midi_input, closeEvent).  rtmidi runs *)
(* midi_callback on its own thread, and the mixer ends a channel when its  *)
(* buffer has been played.  A slot may start when the Qt thread is idle or *)
(* sits in QApplication.processEvents() inside the loop of process_sample  *)
(* (line 217); midi_callback and the end of a channel may happen between   *)
(* any two steps.  process_sample is therefore modelled one loop iteration *)
(* at a time, with a stack of its activations.                             *)
(***************************************************************************)
EXTENDS Integers, Sequences, FiniteSets, TLC

---------------------------------------------------------------------------
(* Bounds of the model *)

\* number of mixer channels (the program asks for 128, line 19)
NumChannels == 2
\* how many consecutive MIDI notes the model uses
NoteSpan == 3
\* longest base sample, in frames
MaxLen == 2
\* longest base sample when buffer lengths are compared, in frames
MaxSampleLen == 18
\* how many activations of process_sample may be nested through processEvents
MaxDepth == 2

(* Program constants *)

\* test_sound's note, also the base_note spin box's initial value
MiddleC == 60
\* largest MIDI data byte: velocity / 127
MaxVelocity == 127
\* volume_slider maximum: value / 100
SliderMax == 100
\* volume_slider initial value
SliderInit == 80
\* midi_callback needs three bytes
MinMessageLen == 3
\* full scale of the 16-bit buffers: resampled * 32767
FullScale == 32767

Channels == 1..NumChannels
\* the notes of the model: a window of the spin boxes' range 0..127
Notes == (MiddleC - 1)..(MiddleC + NoteSpan - 2)
\* velocities (data2) the model sends
Velocities == {0, 64, MaxVelocity}
\* positions of volume_slider the model uses, within 0..SliderMax
SliderValues == {0, SliderInit, SliderMax}
\* status bytes the model sends: 0x7F, 0x80, 0x8F, 0x90, 0x98, 0x9F, 0xA0
StatusBytes == {127, 128, 143, 144, 152, 159, 160}
\* raw MIDI messages: the empty one, too short ones, and 3-byte ones
Messages ==
    {<<>>} \cup {<<s>> : s \in StatusBytes}
           \cup {<<s, n>> : s \in StatusBytes, n \in Notes}
           \cup {<<s, n, v>> : s \in StatusBytes, n \in Notes, v \in Velocities}

---------------------------------------------------------------------------
VARIABLES
    base_sample,       \* self.base_sample: NoSample (None) or [length |-> L]
    processed_sounds,  \* self.processed_sounds: note -> Sound
    active_notes,      \* self.active_notes: note -> channel
    channels,          \* the mixer's channels: <<>> idle, <<n>> playing note n's Sound
    volume_slider,     \* self.volume_slider.value()
    midi_in,           \* self.midi_in: "None", "open" or "closed"
    closed,            \* closeEvent has run (mixer quit, window gone)
    note_debug,        \* text of self.note_debug
    sample_debug,      \* text of self.sample_debug
    frames             \* activations of process_sample, innermost last: the
                       \* spin box values read at entry (base, lo, hi), the
                       \* loop variable note, whether the loop is in
                       \* processEvents(), and the notes whose Sound this
                       \* activation has stored (made)

vars == <<base_sample, processed_sounds, active_notes, channels, volume_slider,
          midi_in, closed, note_debug, sample_debug, frames>>

NoSample == [length |-> 0]
Empty == [n \in {} |-> 0]

\* f with key k bound to v (dict assignment)
Put(f, k, v) == [x \in (DOMAIN f) \cup {k} |-> IF x = k THEN v ELSE f[x]]
\* f without key k (del)
Del(f, k) == [x \in (DOMAIN f) \ {k} |-> f[x]]

Min(S) == CHOOSE x \in S : \A y \in S : x <= y


---------------------------------------------------------------------------
(* Pitch shifting: the length of a note's buffer (lines 194-204) *)

\* 2^(r/12) for r = 0..11, times 10^6, rounded; Semitone[r + 1]
Semitone == <<1000000, 1059463, 1122462, 1189207, 1259921, 1334840,
              1414214, 1498307, 1587401, 1681793, 1781797, 1887749>>

RECURSIVE Pow2(_)
Pow2(k) == IF k <= 0 THEN 1 ELSE 2 * Pow2(k - 1)

\* floor of d / 12 and d mod 12 for any integer d
Octave(d) == IF d >= 0 THEN d \div 12 ELSE -((11 - d) \div 12)
Step(d) == d - 12 * Octave(d)

\* a length that grows with the pitch: original_length * pitch_ratio
NewLength_Inverted(original_length, base, note) ==
    LET d == note - base
        q == Octave(d)
        r == Step(d)
    IN IF q >= 0
       THEN (original_length * Semitone[r + 1] * Pow2(q)) \div 1000000
       ELSE (original_length * Semitone[r + 1]) \div (Pow2(-q) * 1000000)

\* new_length = int(original_length / pitch_ratio) with
\* pitch_ratio = target_freq / base_freq = 2^((note - base) / 12).
\* Agrees with the float computation for the notes and lengths of the model.
NewLength(original_length, base, note) ==
    LET d == note - base
        q == Octave(d)
        r == Step(d)
    IN IF q >= 0
       THEN (original_length * 1000000) \div (Semitone[r + 1] * Pow2(q))
       ELSE (original_length * Pow2(-q) * 1000000) \div Semitone[r + 1]

\* the resampled sample of largest magnitude, times 32767 and cut to an
\* integer: full scale (load_sample normalises the data to a peak of 1.0,
\* line 173) or a tenth beyond it, where the resampling overshoots
Peaks == {-(FullScale + FullScale \div 10), -FullScale,
          FullScale, FullScale + FullScale \div 10}

\* the 16-bit two's complement value with x's low 16 bits
Wrap16(x) == ((x + Pow2(15)) % Pow2(16)) - Pow2(15)

\* np.int16(resampled * 32767) for one sample, x being resampled * 32767
\* cut to an integer.  numpy converts with a plain C cast and does not
\* check the range: a value outside -32768..32767 is undefined in C, and
\* the build either keeps the low 16 bits (the usual outcome: it wraps) or
\* pins the value to the nearest end of the int16 range.
np_int16(x, pins) ==
    IF -Pow2(15) <= x /\ x <= Pow2(15) - 1 THEN x
    ELSE IF ~pins THEN Wrap16(x)
    ELSE IF x > 0 THEN Pow2(15) - 1 ELSE -Pow2(15)

\* pygame.mixer.Sound(audio_int16): a new Sound at full volume.  volume is
\* the value given to Sound.set_volume, in units of 1 / (127 * 100); peak
\* is the buffer's value for the sample of largest magnitude.
NewSound(new_length, audio_int16) ==
    [length |-> new_length, volume |-> MaxVelocity * SliderMax,
     peak |-> audio_int16]

---------------------------------------------------------------------------
(* The mixer *)

FreeChannels == {c \in Channels : channels[c] = <<>>}

\* find_channel(force=True): a busy channel is handed out when none is free
find_channel_forced == IF FreeChannels = {} THEN Min(Channels) ELSE Min(FreeChannels)

\* pygame.mixer.find_channel(): the first channel that is not playing, or
\* None (0) when every channel is busy
find_channel == IF FreeChannels = {} THEN 0 ELSE Min(FreeChannels)

\* the channels playing note n's Sound
Playing(n) == {c \in Channels : channels[c] = <<n>>}

---------------------------------------------------------------------------
(* Status texts *)

MidiEventText(status, note, velocity) ==
    <<"MIDI event", status, status % 16, note, velocity>>
PlayingText(note, velocity) == <<"Playing note", note, velocity>>
NoFreeChannelsText == <<"No free channels available">>
NoSoundText(note) == <<"No sound processed for note", note>>
StoppedText(note) == <<"Stopped note", note>>

---------------------------------------------------------------------------
(* Voices: play_note and stop_note, run by midi_callback *)

\* a gain that leaves the master volume out
Gain_VelocityOnly(velocity, slider) == velocity * SliderMax

\* volume = (velocity / 127) * (self.volume_slider.value() / 100), in units
\* of 1 / (127 * 100)
Gain(velocity, slider) == velocity * slider

\* a play_note that stops the note's earlier channel before it looks for one
play_note_restart(note, velocity) ==
    /\ UNCHANGED <<base_sample, volume_slider, midi_in, closed, sample_debug, frames>>
    /\ IF note \in DOMAIN processed_sounds
       THEN LET stopped == IF note \in DOMAIN active_notes
                           THEN [channels EXCEPT ![active_notes[note]] = <<>>]
                           ELSE channels
                channel == Min({c \in Channels : stopped[c] = <<>>} \cup {NumChannels + 1})
            IN IF channel <= NumChannels
               THEN /\ processed_sounds' =
                         [processed_sounds EXCEPT ![note].volume =
                              Gain(velocity, volume_slider)]
                    /\ channels' = [stopped EXCEPT ![channel] = <<note>>]
                    /\ active_notes' = Put(active_notes, note, channel)
                    /\ note_debug' = <<"Playing note", note, velocity>>
               ELSE /\ note_debug' = <<"No free channels available">>
                    /\ UNCHANGED <<processed_sounds, channels, active_notes>>
       ELSE /\ note_debug' = <<"No sound processed for note", note>>
            /\ UNCHANGED <<processed_sounds, channels, active_notes>>

\* a play_note that takes its channel before it looks the note up, and
\* records it even when there is no Sound to play
play_note_reserve(note, velocity) ==
    /\ UNCHANGED <<base_sample, volume_slider, midi_in, closed, sample_debug, frames>>
    /\ LET channel == IF FreeChannels = {} THEN 0 ELSE Min(FreeChannels)
       IN IF channel # 0
          THEN /\ active_notes' = Put(active_notes, note, channel)
               /\ IF note \in DOMAIN processed_sounds
                  THEN /\ processed_sounds' =
                            [processed_sounds EXCEPT ![note].volume =
                                 Gain(velocity, volume_slider)]
                       /\ channels' = [channels EXCEPT ![channel] = <<note>>]
                       /\ note_debug' = <<"Playing note", note, velocity>>
                  ELSE /\ note_debug' = <<"No sound processed for note", note>>
                       /\ UNCHANGED <<processed_sounds, channels>>
          ELSE /\ note_debug' = <<"No free channels available">>
               /\ UNCHANGED <<processed_sounds, channels, active_notes>>

play_note(note, velocity) ==
    /\ UNCHANGED <<base_sample, volume_slider, midi_in, closed, sample_debug, frames>>
    /\ IF note \in DOMAIN processed_sounds
       THEN LET volume == Gain(velocity, volume_slider)
                channel == find_channel
            IN IF channel # 0
               THEN /\ processed_sounds' =
                         [processed_sounds EXCEPT ![note].volume = volume]
                    /\ channels' = [channels EXCEPT ![channel] = <<note>>]
                    /\ active_notes' = Put(active_notes, note, channel)
                    /\ note_debug' = PlayingText(note, velocity)
               ELSE /\ note_debug' = NoFreeChannelsText
                    /\ UNCHANGED <<processed_sounds, channels, active_notes>>
       ELSE /\ note_debug' = NoSoundText(note)
            /\ UNCHANGED <<processed_sounds, channels, active_notes>>

\* a stop_note that looks the note up in the cache, as play_note does
stop_note_cached(note, shown) ==
    /\ UNCHANGED <<base_sample, processed_sounds, volume_slider, midi_in, closed,
                   sample_debug, frames>>
    /\ IF note \in DOMAIN active_notes /\ note \in DOMAIN processed_sounds
       THEN /\ channels' = [channels EXCEPT ![active_notes[note]] = <<>>]
            /\ active_notes' = Del(active_notes, note)
            /\ note_debug' = <<"Stopped note", note>>
       ELSE /\ note_debug' = shown
            /\ UNCHANGED <<channels, active_notes>>

\* a stop_note that silences every channel playing the note's Sound,
\* recorded or not
stop_note_sweep(note, shown) ==
    /\ UNCHANGED <<base_sample, processed_sounds, volume_slider, midi_in, closed,
                   sample_debug, frames>>
    /\ channels' = [c \in Channels |->
                      IF channels[c] = <<note>> \/
                         (note \in DOMAIN active_notes /\ c = active_notes[note])
                      THEN <<>> ELSE channels[c]]
    /\ active_notes' = Del(active_notes, note)
    /\ note_debug' = IF note \in DOMAIN active_notes
                     THEN <<"Stopped note", note>> ELSE shown

\* shown: the text note_debug holds when stop_note is entered (line 238)
stop_note(note, shown) ==
    /\ UNCHANGED <<base_sample, processed_sounds, volume_slider, midi_in, closed,
                   sample_debug, frames>>
    /\ IF note \in DOMAIN active_notes
       THEN LET channel == active_notes[note]
            IN /\ channels' = [channels EXCEPT ![channel] = <<>>]
               /\ active_notes' = Del(active_notes, note)
               /\ note_debug' = StoppedText(note)
       ELSE /\ note_debug' = shown
            /\ UNCHANGED <<channels, active_notes>>

---------------------------------------------------------------------------
(* MIDI decoding: midi_callback *)

\* a decoder that knows note-on for MIDI channel 0 only
IsNoteOn_Channel0(status, velocity) ==
    status = 144 /\ velocity > 0

\* a decoder whose note-off range ends one short of 0x8F
IsNoteOff_Short(status, velocity) ==
    (128 <= status /\ status < 143) \/ (status = 152 /\ velocity = 0)

\* a decoder that takes every status from 0x80 to 0xA0 for a note-off
IsNoteOff_Wide(status, velocity) ==
    (128 <= status /\ status <= 160) \/ (status = 152 /\ velocity = 0)

IsNoteOn(status, velocity) ==
    ((144 <= status /\ status <= 159) \/ status = 152) /\ velocity > 0
IsNoteOff(status, velocity) ==
    (128 <= status /\ status <= 143) \/ (status = 152 /\ velocity = 0)

\* the kind of event lines 241-245 make of a 3-byte message
Decoded(status, velocity) ==
    IF IsNoteOn(status, velocity) THEN "NoteOn"
    ELSE IF IsNoteOff(status, velocity) THEN "NoteOff"
    ELSE "none"

midi_callback(message) ==
    /\ midi_in = "open"
    /\ IF Len(message) < MinMessageLen
       THEN UNCHANGED vars
       ELSE LET status == message[1]
                note == message[2]
                velocity == message[3]
            IN IF IsNoteOn(status, velocity)
               THEN play_note(note, velocity)
               ELSE IF IsNoteOff(status, velocity)
               THEN stop_note(note, MidiEventText(status, note, velocity))
               ELSE /\ note_debug' = MidiEventText(status, note, velocity)
                    /\ UNCHANGED <<base_sample, processed_sounds, active_notes,
                                   channels, volume_slider, midi_in, closed,
                                   sample_debug, frames>>

---------------------------------------------------------------------------
(* The Qt thread's slots *)

Top == frames[Len(frames)]
Pop == SubSeq(frames, 1, Len(frames) - 1)

\* the Qt thread can run a slot: it is idle, or the innermost process_sample
\* is in processEvents(); the window is still there
GuiReady == ~closed /\ (IF Len(frames) = 0 THEN TRUE ELSE Top.events)

\* load_sample with a file of data_len frames; an empty file makes
\* np.max(np.abs(audio_data)) raise, which is reported and changes nothing else
load_sample(data_len) ==
    /\ GuiReady
    /\ IF data_len > 0
       THEN /\ base_sample' = [length |-> data_len]
            /\ sample_debug' = <<"Loaded sample", data_len>>
       ELSE /\ sample_debug' = <<"Error loading sample">>
            /\ UNCHANGED base_sample
    /\ UNCHANGED <<processed_sounds, active_notes, channels, volume_slider,
                   midi_in, closed, note_debug, frames>>

\* process_sample up to the loop (lines 188-197), with the spin boxes at
\* base, lo (min_note) and hi (max_note)
process_sample(base, lo, hi) ==
    /\ GuiReady
    /\ Len(frames) < MaxDepth
    /\ IF base_sample = NoSample
       THEN /\ sample_debug' = <<"Please load a sample first">>
            /\ UNCHANGED <<processed_sounds, frames>>
       ELSE /\ processed_sounds' = Empty
            /\ frames' = Append(frames, [base |-> base, lo |-> lo, hi |-> hi,
                                         note |-> lo, events |-> FALSE,
                                         made |-> {}])
            /\ UNCHANGED sample_debug
    /\ UNCHANGED <<base_sample, active_notes, channels, volume_slider,
                   midi_in, closed, note_debug>>

\* one iteration of the loop (lines 199-217) of the innermost process_sample.
\* resampled: signal.resample(data, new_length) returns an array; it does
\* for new_length > 0, and for new_length = 0 it returns or raises with the
\* scipy at hand; a raise ends the whole call in the outer handler (line
\* 221).  created: pygame.mixer.Sound(audio_int16) succeeds; it raises once
\* the mixer has quit.  After a Sound that could not be created the loop
\* continues without processEvents().  peak: the largest resampled sample
\* times 32767; a buffer of the sample's own length is the sample itself,
\* whose peak is full scale.  pins: what the int16 conversion of line 207
\* does with a value out of range.
process_note(resampled, created, peak, pins) ==
    /\ frames # <<>>
    /\ Top.note <= Top.hi
    /\ created => ~closed
    /\ Top.note = Top.base => peak \in {-FullScale, FullScale}
    /\ LET f == Top
           new_length == NewLength(base_sample.length, f.base, f.note)
       IN /\ new_length > 0 => resampled
          /\ IF ~resampled
             THEN /\ sample_debug' = <<"Error processing sample">>
                  /\ frames' = Pop
                  /\ UNCHANGED processed_sounds
             ELSE /\ frames' = [frames EXCEPT ![Len(frames)] =
                                   [f EXCEPT !.note = f.note + 1, !.events = created,
                                             !.made = IF created THEN f.made \cup {f.note}
                                                                 ELSE f.made]]
                  /\ IF created
                     THEN /\ processed_sounds' =
                               Put(processed_sounds, f.note,
                                   NewSound(new_length, np_int16(peak, pins)))
                          /\ UNCHANGED sample_debug
                     ELSE /\ sample_debug' = <<"Error creating sound for note", f.note>>
                          /\ UNCHANGED processed_sounds
    /\ UNCHANGED <<base_sample, active_notes, channels, volume_slider,
                   midi_in, closed, note_debug>>

\* the loop is over (lines 219-220): the count of processed notes is shown
\* (the text's range line is left out) and process_sample returns
process_done ==
    /\ frames # <<>>
    /\ Top.note > Top.hi
    /\ sample_debug' = <<"Processed", Cardinality(DOMAIN processed_sounds)>>
    /\ frames' = Pop
    /\ UNCHANGED <<base_sample, processed_sounds, active_notes, channels,
                   volume_slider, midi_in, closed, note_debug>>

\* the slider moves to value: update_volume sets every cached Sound to it
update_volume(value) ==
    /\ GuiReady
    /\ value # volume_slider
    /\ volume_slider' = value
    /\ processed_sounds' = [n \in DOMAIN processed_sounds |->
                              [processed_sounds[n] EXCEPT !.volume = Gain(MaxVelocity, value)]]
    /\ UNCHANGED <<base_sample, active_notes, channels, midi_in, closed,
                   note_debug, sample_debug, frames>>

\* test_sound: Sound.play() of middle C on a free channel, if there is one
test_sound ==
    /\ GuiReady
    /\ IF MiddleC \in DOMAIN processed_sounds /\ find_channel # 0
       THEN channels' = [channels EXCEPT ![find_channel] = <<MiddleC>>]
       ELSE UNCHANGED channels
    /\ UNCHANGED <<base_sample, processed_sounds, active_notes, volume_slider,
                   midi_in, closed, note_debug, sample_debug, frames>>

\* select_midi_input: opened tells whether open_port succeeded
select_midi_input(opened) ==
    /\ GuiReady
    /\ midi_in' = IF opened THEN "open" ELSE "closed"
    /\ UNCHANGED <<base_sample, processed_sounds, active_notes, channels,
                   volume_slider, closed, note_debug, sample_debug, frames>>

\* a closeEvent that closes the port and leaves the mixer running
closeEvent_PortOnly ==
    /\ GuiReady
    /\ midi_in' = IF midi_in = "None" THEN "None" ELSE "closed"
    /\ closed' = TRUE
    /\ UNCHANGED <<base_sample, processed_sounds, active_notes, channels,
                   volume_slider, note_debug, sample_debug, frames>>

\* closeEvent: the port is closed, pygame.mixer.quit() stops every channel
closeEvent ==
    /\ GuiReady
    /\ midi_in' = IF midi_in = "None" THEN "None" ELSE "closed"
    /\ channels' = [c \in Channels |-> <<>>]
    /\ closed' = TRUE
    /\ UNCHANGED <<base_sample, processed_sounds, active_notes, volume_slider,
                   note_debug, sample_debug, frames>>

\* the mixer has played channel c's buffer to its end
channel_finished(c) ==
    /\ channels[c] # <<>>
    /\ channels' = [channels EXCEPT ![c] = <<>>]
    /\ UNCHANGED <<base_sample, processed_sounds, active_notes, volume_slider,
                   midi_in, closed, note_debug, sample_debug, frames>>

---------------------------------------------------------------------------
(* The program *)

Init ==
    /\ base_sample = NoSample
    /\ processed_sounds = Empty
    /\ active_notes = Empty
    /\ channels = [c \in Channels |-> <<>>]
    /\ volume_slider = SliderInit
    /\ midi_in = "None"
    /\ closed = FALSE
    /\ note_debug = <<"Last MIDI event: None">>
    /\ sample_debug = <<"No sample loaded">>
    /\ frames = <<>>

Next ==
    \/ \E data_len \in 0..MaxLen : load_sample(data_len)
    \/ \E base \in Notes, lo \in Notes, hi \in Notes : process_sample(base, lo, hi)
    \/ \E resampled \in BOOLEAN, created \in BOOLEAN, peak \in Peaks, pins \in BOOLEAN :
          process_note(resampled, created, peak, pins)
    \/ process_done
    \/ \E value \in SliderValues : update_volume(value)
    \/ test_sound
    \/ \E opened \in BOOLEAN : select_midi_input(opened)
    \/ closeEvent
    \/ \E message \in Messages : midi_callback(message)
    \/ \E c \in Channels : channel_finished(c)

Spec == Init /\ [][Next]_vars

---------------------------------------------------------------------------
(* The program under narrower environments.  Each specification below is   *)
(* Spec with the environment limited to the inputs named in it; every      *)
(* behaviour of each is a behaviour of Spec.  All but SpecClip take        *)
(* samples whose resampled peak stays at full scale.                       *)

\* Sample processing: no MIDI port is opened.
NextProcess ==
    \/ \E data_len \in 0..MaxLen : load_sample(data_len)
    \/ \E base \in Notes, lo \in Notes, hi \in Notes : process_sample(base, lo, hi)
    \/ \E resampled \in BOOLEAN, created \in BOOLEAN :
          process_note(resampled, created, FullScale, FALSE)
    \/ process_done
    \/ closeEvent

SpecProcess == Init /\ [][NextProcess]_vars

\* Polyphony: a sample of MaxLen frames processed for the three notes around
\* middle C, process_sample never re-entered, every Sound created, the slider
\* left alone; note-on 0x90 (velocity 64) and note-off 0x80 for those notes.
VoiceNotes == (MiddleC - 1)..(MiddleC + 1)
PolyMessages == {<<s, n, 64>> : s \in {128, 144}, n \in VoiceNotes}

NextPoly ==
    \/ load_sample(MaxLen)
    \/ frames = <<>> /\ process_sample(MiddleC, MiddleC - 1, MiddleC + 1)
    \/ process_note(TRUE, TRUE, FullScale, FALSE)
    \/ process_done
    \/ select_midi_input(TRUE)
    \/ closeEvent
    \/ \E message \in PolyMessages : midi_callback(message)
    \/ \E c \in Channels : channel_finished(c)

SpecPoly == Init /\ [][NextPoly]_vars

\* One voice: middle C played and released at two velocities while the
\* sample is processed for any range and the slider moves.
NoteMessages == {<<s, MiddleC, v>> : s \in {128, 144}, v \in {64, MaxVelocity}}

NextNote ==
    \/ load_sample(MaxLen)
    \/ \E lo \in VoiceNotes, hi \in VoiceNotes :
          frames = <<>> /\ process_sample(MiddleC, lo, hi)
    \/ \E resampled \in BOOLEAN, created \in BOOLEAN :
          process_note(resampled, created, FullScale, FALSE)
    \/ process_done
    \/ \E value \in SliderValues : update_volume(value)
    \/ test_sound
    \/ select_midi_input(TRUE)
    \/ closeEvent
    \/ \E message \in NoteMessages : midi_callback(message)
    \/ \E c \in Channels : channel_finished(c)

SpecNote == Init /\ [][NextNote]_vars

DecodeNotes == {MiddleC}
\* Decoding: every status byte from 0x7E to 0xA1 at velocities 0, 1 and 127
\* for middle C, the only note processed, and buffers that do not end.
AllStatusBytes == 126..161
DecodeMessages ==
    {<<>>, <<144>>, <<144, MiddleC>>}
        \cup {<<s, n, v>> : s \in AllStatusBytes, n \in DecodeNotes,
                            v \in {0, 1, MaxVelocity}}

NextDecode ==
    \/ load_sample(MaxLen)
    \/ frames = <<>> /\ process_sample(MiddleC, MiddleC, MiddleC)
    \/ process_note(TRUE, TRUE, FullScale, FALSE)
    \/ process_done
    \/ select_midi_input(TRUE)
    \/ \E message \in DecodeMessages : midi_callback(message)

SpecDecode == Init /\ [][NextDecode]_vars

\* Buffer lengths: samples of 1..MaxSampleLen frames, processed for every
\* base note and range of the model's notes, every Sound created, no
\* re-entry and no load while the loop runs.
NextPitch ==
    \/ \E data_len \in 1..MaxSampleLen : frames = <<>> /\ load_sample(data_len)
    \/ \E base \in Notes, lo \in Notes, hi \in Notes :
          frames = <<>> /\ process_sample(base, lo, hi)
    \/ process_note(TRUE, TRUE, FullScale, FALSE)
    \/ process_done

SpecPitch == Init /\ [][NextPitch]_vars

\* Conversion to 16 bits: middle C's sample processed for any range of the
\* notes around it, with every peak and either outcome of the conversion.
NextClip ==
    \/ load_sample(MaxLen)
    \/ \E lo \in VoiceNotes, hi \in VoiceNotes :
          frames = <<>> /\ process_sample(MiddleC, lo, hi)
    \/ \E peak \in Peaks, pins \in BOOLEAN : process_note(TRUE, TRUE, peak, pins)
    \/ process_done

SpecClip == Init /\ [][NextClip]_vars

---------------------------------------------------------------------------
(* Claims about the decoder, under SpecDecode *)

\* C1: for every status byte in 0x90..0x9F and every note, a 3-byte message
\* with velocity 0 is decoded as NoteOff(note): midi_callback runs
\* stop_note(note), so a note that was Sounding is Idle afterwards.
C1_VelocityZeroIsNoteOff ==
    [][\A s \in 144..159, n \in DecodeNotes :
          midi_callback(<<s, n, 0>>)
              => /\ stop_note(n, MidiEventText(s, n, 0))
                 /\ n \notin DOMAIN active_notes']_vars

\* C9: for every status byte in 0x90..0x9F and every velocity > 0, a 3-byte
\* message is decoded as exactly one NoteOn(note = data1, velocity = data2):
\* the step midi_callback takes is play_note(data1, data2), and it is not
\* the step of stop_note(data1).
C9_NoteOnDecoded ==
    [][\A s \in 144..159, n \in DecodeNotes, v \in {1, MaxVelocity} :
          midi_callback(<<s, n, v>>)
              => /\ play_note(n, v)
                 /\ ~stop_note(n, MidiEventText(s, n, v))]_vars

\* a NoteOn on a channel other than 0 has started middle C at velocity 127
C9_Witness ==
    /\ note_debug = PlayingText(MiddleC, MaxVelocity)
    /\ MiddleC \in DOMAIN active_notes
    /\ channels[active_notes[MiddleC]] = <<MiddleC>>
    /\ processed_sounds[MiddleC].volume = MaxVelocity * volume_slider

\* C10: for every status byte in 0x80..0x8F and every velocity, a 3-byte
\* message is decoded as exactly one NoteOff(data1): the step midi_callback
\* takes is stop_note(data1), and it is not the step of play_note.
C10_NoteOffDecoded ==
    [][\A s \in 128..143, n \in DecodeNotes, v \in {0, 1, MaxVelocity} :
          midi_callback(<<s, n, v>>)
              => /\ stop_note(n, MidiEventText(s, n, v))
                 /\ ~play_note(n, v)]_vars

\* a NoteOff has stopped middle C, and its channel
C10_Witness ==
    /\ note_debug = StoppedText(MiddleC)
    /\ MiddleC \notin DOMAIN active_notes
    /\ MiddleC \in DOMAIN processed_sounds
    /\ Playing(MiddleC) = {}

\* C11: a message that is empty, shorter than 3 bytes, or whose status byte
\* is outside 0x80..0x9F yields no event: a short message changes nothing
\* at all; a 3-byte one only shows its MIDI event text, while active_notes,
\* processed_sounds and what every channel plays stay as they were (the
\* step is neither play_note's nor, for a Sounding note, stop_note's).
C11_OtherMessagesNoEvent ==
    [][\A message \in DecodeMessages :
          midi_callback(message)
              => /\ Len(message) < MinMessageLen => UNCHANGED vars
                 /\ (Len(message) >= MinMessageLen
                     /\ (message[1] < 128 \/ message[1] > 159))
                        => /\ UNCHANGED <<active_notes, processed_sounds, channels>>
                           /\ note_debug' =
                                 MidiEventText(message[1], message[2], message[3])
                           /\ ~play_note(message[2], message[3])]_vars

\* middle C is Sounding and a 3-byte message with status 0xA0 has just
\* been shown and ignored
C11_Witness ==
    /\ note_debug = MidiEventText(160, MiddleC, MaxVelocity)
    /\ MiddleC \in DOMAIN active_notes
    /\ channels[active_notes[MiddleC]] = <<MiddleC>>

\* C18: the kind of event does not depend on the MIDI channel: whenever
\* midi_callback handles a message with status s1 in 0x80..0x9F, any status
\* s2 with the same high nibble would be decoded to the same kind of event
\* (NoteOn, NoteOff or none) for the same data bytes; 0x98 is like every
\* other 0x9n.
C18_ChannelIndependent ==
    [][\A s1 \in 128..159, s2 \in 128..159, n \in DecodeNotes,
          v \in {0, 1, MaxVelocity} :
          (s1 \div 16 = s2 \div 16 /\ midi_callback(<<s1, n, v>>))
              => Decoded(s1, v) = Decoded(s2, v)]_vars

---------------------------------------------------------------------------
(* Claims about polyphony, under SpecPoly *)

\* C2: with every one of the K channels busy, a NoteOn for a note that has a
\* processed Sound is dropped and reported as "No free channels available":
\* active_notes is unchanged, no channel changes what it plays (no play
\* call, nothing stopped or stolen) and no Sound's volume is set.
C2_ExhaustionDropsNoteOn ==
    [][\A n \in VoiceNotes :
          (FreeChannels = {} /\ n \in DOMAIN processed_sounds
           /\ midi_callback(<<144, n, 64>>))
              => /\ active_notes' = active_notes
                 /\ channels' = channels
                 /\ processed_sounds' = processed_sounds
                 /\ note_debug' = NoFreeChannelsText]_vars

\* K distinct notes sound on the K channels and a NoteOn for a further
\* processed note has just been dropped
C2_Witness ==
    /\ note_debug = NoFreeChannelsText
    /\ FreeChannels = {}
    /\ Cardinality(DOMAIN active_notes) = NumChannels
    /\ \A n \in DOMAIN active_notes : channels[active_notes[n]] = <<n>>
    /\ \E n \in DOMAIN processed_sounds : n \notin DOMAIN active_notes

\* C4, as claimed: at any time at most one channel is playing a given
\* note's Sound.
C4_OneChannelPerNote == \A n \in Notes : Cardinality(Playing(n)) <= 1

\* C4, amended: active_notes holds at most one channel per note, but a
\* NoteOn for a note that is Sounding (its recorded channel still playing),
\* when another channel is free, starts the note's Sound on that free
\* channel and rebinds the note's entry to it; the channel recorded before,
\* like every other channel, is left playing what it played.
C4_RetriggerStacks ==
    [][\A n \in VoiceNotes :
          (n \in DOMAIN active_notes /\ n \in DOMAIN processed_sounds
           /\ channels[active_notes[n]] # <<>>
           /\ find_channel # 0 /\ midi_callback(<<144, n, 64>>))
              => /\ active_notes' = Put(active_notes, n, find_channel)
                 /\ channels'[find_channel] = <<n>>
                 /\ \A c \in Channels \ {find_channel} : channels'[c] = channels[c]
                 /\ find_channel # active_notes[n]]_vars

\* a held note has been retriggered: two channels play its Sound, one of
\* them recorded
C4_Witness ==
    \E n \in DOMAIN active_notes :
        /\ Cardinality(Playing(n)) = 2
        /\ active_notes[n] \in Playing(n)
        /\ note_debug = PlayingText(n, 64)

\* C13: a NoteOn for a note that has no Sound in processed_sounds is
\* dropped: no channel is taken or played, active_notes and the cache are
\* unchanged, and only the text "No sound processed for note" is shown.
C13_NoteOnWithoutSoundDropped ==
    [][\A n \in VoiceNotes :
          (n \notin DOMAIN processed_sounds /\ midi_callback(<<144, n, 64>>))
              => /\ UNCHANGED <<active_notes, channels, processed_sounds>>
                 /\ note_debug' = NoSoundText(n)]_vars

\* a NoteOn has been dropped for a note that is still Sounding from before
\* the cache was cleared, with a channel free
C13_Witness ==
    \E n \in DOMAIN active_notes :
        /\ note_debug = NoSoundText(n)
        /\ n \notin DOMAIN processed_sounds
        /\ channels[active_notes[n]] = <<n>>
        /\ FreeChannels # {}

\* C15: a NoteOn handled while process_sample runs sees the complete old
\* cache or the complete new one.  Under SpecPoly every process builds the
\* same three notes, so once a first process has reported them ("Processed"
\* with three notes) each note is in the old cache and in the new one, and
\* a NoteOn for it is never answered "No sound processed for note".
C15_ReaderSeesCompleteCache ==
    [][\A n \in VoiceNotes :
          (sample_debug = <<"Processed", Cardinality(VoiceNotes)>>
           /\ midi_callback(<<144, n, 64>>))
              => /\ n \in DOMAIN processed_sounds
                 /\ note_debug' # NoSoundText(n)]_vars

\* C16: in every reachable state a note is in active_notes if and only if
\* it owns a live channel: the channel recorded for it is playing its
\* Sound, and every channel playing a note's Sound is the one recorded for
\* that note.  States after closeEvent are left out.
C16_ActiveIffLiveChannel ==
    ~closed =>
        /\ \A n \in DOMAIN active_notes : channels[active_notes[n]] = <<n>>
        /\ \A c \in Channels, n \in VoiceNotes :
               channels[c] = <<n>>
                   => (n \in DOMAIN active_notes /\ active_notes[n] = c)

\* C17: no two notes of active_notes are bound to the same channel, so the
\* channel a NoteOff stops is never the one recorded for another note.
C17_ChannelsNotShared ==
    \A m \in DOMAIN active_notes, n \in DOMAIN active_notes :
        m # n => active_notes[m] # active_notes[n]

---------------------------------------------------------------------------
(* Claims about one voice, under SpecNote *)

\* C5: a NoteOff for a note that is in active_notes stops the channel
\* recorded for it and removes the entry, so the note is Idle afterwards,
\* whatever process_sample and update_volume did since the NoteOn: the note
\* need not be in processed_sounds any more.  Nothing else changes but the
\* text shown.
C5_NoteOffStopsRecordedChannel ==
    [][\A v \in {64, MaxVelocity} :
          (MiddleC \in DOMAIN active_notes /\ midi_callback(<<128, MiddleC, v>>))
              => /\ MiddleC \notin DOMAIN active_notes'
                 /\ channels'[active_notes[MiddleC]] = <<>>
                 /\ \A c \in Channels \ {active_notes[MiddleC]} :
                        channels'[c] = channels[c]
                 /\ processed_sounds' = processed_sounds
                 /\ note_debug' = StoppedText(MiddleC)]_vars

\* middle C has been stopped while process_sample, started again after the
\* NoteOn, had cleared the cache and not yet stored a Sound
C5_Witness ==
    /\ note_debug = StoppedText(MiddleC)
    /\ MiddleC \notin DOMAIN active_notes
    /\ frames # <<>>
    /\ processed_sounds = Empty
    /\ channels = [c \in Channels |-> <<>>]
    /\ volume_slider # SliderInit

\* C8: on every successful NoteOn(note, velocity) the Sound is played at
\* volume (velocity / 127) * (slider / 100), the slider being the one in
\* force at that moment and within 0..100; so the volume is within [0, 1],
\* and velocity 127 at slider 80 gives 0.8.  Volumes are in units of
\* 1 / (127 * 100).
C8_GainIsVelocityTimesMaster ==
    [][\A v \in {64, MaxVelocity} :
          (MiddleC \in DOMAIN processed_sounds /\ find_channel # 0
           /\ midi_callback(<<144, MiddleC, v>>))
              => LET volume == processed_sounds'[MiddleC].volume
                 IN /\ channels'[find_channel] = <<MiddleC>>
                    /\ volume = v * volume_slider
                    /\ 0 <= volume_slider /\ volume_slider <= SliderMax
                    /\ 0 <= volume /\ volume <= MaxVelocity * SliderMax
                    /\ (v = MaxVelocity /\ volume_slider = 80)
                           => 10 * volume = 8 * (MaxVelocity * SliderMax)]_vars

\* middle C has been started at velocity 127 with the slider at 80
C8_Witness ==
    /\ note_debug = PlayingText(MiddleC, MaxVelocity)
    /\ volume_slider = 80
    /\ MiddleC \in DOMAIN active_notes
    /\ channels[active_notes[MiddleC]] = <<MiddleC>>
    /\ 10 * processed_sounds[MiddleC].volume = 8 * (MaxVelocity * SliderMax)

\* C12: NoteOff(n) for a note with no entry in active_notes is a no-op:
\* active_notes is unchanged, no channel is stopped (not even one that
\* still plays n's Sound unrecorded), nothing is reported but the MIDI event
\* text; and after any NoteOff(n) the note has no entry, so a second NoteOff
\* in a row is that no-op.
C12_NoteOffIdleIsNoOp ==
    [][\A v \in {64, MaxVelocity} :
          midi_callback(<<128, MiddleC, v>>)
              => /\ MiddleC \notin DOMAIN active_notes'
                 /\ MiddleC \notin DOMAIN active_notes
                       => /\ UNCHANGED <<active_notes, channels, processed_sounds>>
                          /\ note_debug' = MidiEventText(128, MiddleC, v)]_vars

\* a NoteOff for middle C, Idle, has been ignored while a channel was
\* playing middle C's Sound
C12_Witness ==
    /\ note_debug = MidiEventText(128, MiddleC, 64)
    /\ MiddleC \notin DOMAIN active_notes
    /\ Playing(MiddleC) # {}

\* C20: once closeEvent has run, whatever the state it ran in, no channel
\* is playing (so every channel recorded in active_notes is stopped), the
\* MIDI port is not open, and no later step starts a voice or changes
\* active_notes.
C20_CloseTearsDown ==
    [][closed'
          => /\ \A c \in Channels : channels'[c] = <<>>
             /\ midi_in' # "open"
             /\ closed => UNCHANGED <<channels, active_notes>>]_vars

\* the window was closed with middle C Sounding and its NoteOn the last
\* thing shown: its channel is stopped, its entry is still there
C20_Witness ==
    /\ closed
    /\ midi_in = "closed"
    /\ note_debug \in {PlayingText(MiddleC, 64), PlayingText(MiddleC, MaxVelocity)}
    /\ MiddleC \in DOMAIN active_notes
    /\ channels = [c \in Channels |-> <<>>]

---------------------------------------------------------------------------
(* Claims about sample processing, under SpecProcess *)

\* C3: a process request with an invalid range (min_note > max_note), made
\* while no other is running, fails as a whole and leaves the cache built
\* before untouched: the same notes with the same Sounds.
C3_InvalidRangeKeepsCache ==
    [][\A base \in Notes, lo \in Notes, hi \in Notes :
          (lo > hi /\ base_sample # NoSample /\ frames = <<>>
           /\ process_sample(base, lo, hi))
              => processed_sounds' = processed_sounds]_vars

\* C6: when process_sample completes for the range [lo, hi], the cache holds
\* a Sound for every note of the range that this call resampled and stored,
\* and for no other note: none outside the range, nothing left from before
\* the call.
C6_CacheIsThisCallsResult ==
    [][process_done
          => /\ DOMAIN processed_sounds' = Top.made
             /\ DOMAIN processed_sounds' \subseteq Top.lo..Top.hi]_vars

\* C7: a failure for one note in the loop (a resample that fails on a zero
\* length, or a Sound that cannot be created) only skips that note: the note
\* is not stored, the loop goes on with the next note, and no fatal "Error
\* processing sample" is reported.
C7_NoteFailureSkipsNote ==
    [][\A resampled \in BOOLEAN, created \in BOOLEAN :
          (process_note(resampled, created, FullScale, FALSE)
           /\ (~resampled \/ ~created))
              => /\ processed_sounds' = processed_sounds
                 /\ Len(frames') = Len(frames)
                 /\ frames'[Len(frames)].note = Top.note + 1
                 /\ sample_debug' # <<"Error processing sample">>]_vars

---------------------------------------------------------------------------
(* Claims about buffer lengths, under SpecPitch *)

\* C14, as claimed: for a base sample of L > 0 frames, the buffer stored for
\* note n has new_length < L when n > base_note, new_length > L when
\* n < base_note, and new_length = L when n = base_note.
C14_LengthStrictlyOrdered ==
    [][process_note(TRUE, TRUE, FullScale, FALSE)
          => LET L == base_sample.length
                 new_length == processed_sounds'[Top.note].length
             IN /\ Top.note > Top.base => new_length < L
                /\ Top.note < Top.base => new_length > L
                /\ Top.note = Top.base => new_length = L]_vars

\* C14, amended: new_length < L when n > base_note and new_length = L when
\* n = base_note; when n < base_note, new_length >= L, and new_length > L
\* once L >= 17 (for shorter samples the floor can give back L itself: one
\* semitone down lengthens by less than 6 percent).
C14_LengthOrdered ==
    [][process_note(TRUE, TRUE, FullScale, FALSE)
          => LET L == base_sample.length
                 new_length == processed_sounds'[Top.note].length
             IN /\ Top.note > Top.base => new_length < L
                /\ Top.note < Top.base => /\ new_length >= L
                                          /\ L >= 17 => new_length > L
                /\ Top.note = Top.base => new_length = L]_vars

\* a sample of 17 frames processed around base note 60: a longer buffer for
\* 59, an equal one for 60, a shorter one for 61
C14_Witness ==
    /\ frames # <<>>
    /\ Top.base = MiddleC
    /\ base_sample.length = 17
    /\ {MiddleC - 1, MiddleC, MiddleC + 1} \subseteq DOMAIN processed_sounds
    /\ processed_sounds[MiddleC - 1].length > 17
    /\ processed_sounds[MiddleC].length = 17
    /\ processed_sounds[MiddleC + 1].length < 17

---------------------------------------------------------------------------
(* Claims about the 16-bit conversion, under SpecClip *)

\* C19: the value a processed buffer holds for a sample is the resampled
\* amplitude times 32767, saturated to -32767..32767: a peak beyond full
\* scale becomes +32767 or -32767, never a wrapped-around value.
C19_SamplesSaturate ==
    [][\A peak \in Peaks, pins \in BOOLEAN :
          process_note(TRUE, TRUE, peak, pins)
              => processed_sounds'[Top.note].peak =
                    (IF peak > FullScale THEN FullScale
                     ELSE IF peak < -FullScale THEN -FullScale ELSE peak)]_vars

=============================================================================
